---- MODULE Spec2Model ----
(***************************************************************************)
(* Model of src/src/connection.rs: the gateway Connection (orchestrator    *)
(* thread: Connection::new, recv_event, resume, reconnect, shutdown,       *)
(* set_game, __download_members) and the keepalive worker threads it       *)
(* spawns, which communicate over mpsc command channels and write frames   *)
(* to websocket transports.                                                *)
(*                                                                         *)
(* The gateway and the network are the environment: what a read returns    *)
(* and whether an open, a write or a socket shutdown succeeds are inputs   *)
(* chosen with \E.  Frames written to a transport are appended to wire.    *)
(***************************************************************************)
EXTENDS Integers, Sequences, FiniteSets, TLC

\* ------------------------------------------------------------------ bounds
\* Transports (sockets) that can be opened successfully in one behaviour;
\* every later Client::connect fails.
MaxTransports == 2
\* Events of the environment in one behaviour: results of recv_event's read
\* (a frame or an error), InvalidateSession frames read by a handshake, timer
\* ticks of the workers, and set_game / __download_members calls.  When they
\* are used up, recv_event's read blocks and the timers stay silent.
MaxEvents == 2
\* Largest dispatch sequence number the gateway hands out.
MaxSeq == 2

\* ------------------------------------------------------- program constants
\* Close codes after which recv_event does not resume.
CloseNormal == 1000
CloseSessionGone == 4006
\* A close code that is neither (the spec's example).
CloseUnknown == 4000
\* Opcodes of the frames the client writes.
OpHeartbeat == 1
OpIdentify == 2
OpStatus == 3
OpResume == 6
OpMembers == 8
\* Iterations of the cached-URL loop of reconnect (for _ in 0..2).
CachedAttempts == 2

\* session_id = None
NoSession == 0
\* The orchestrator as the writer of a frame (workers are 1..MaxTransports).
Orch == 0
\* No Sequence command applied yet (history value).
NoSeq == -1

Transports == 1..MaxTransports
Chans == 1..MaxTransports
\* Session ids are opaque to the client, which only stores, copies and sends
\* them: two distinct ones show every such step.
SessionIds == {1, 2}
CloseCodes == {CloseNormal, CloseUnknown, CloseSessionGone}
EventKinds == {"Ready", "Resumed", "Other"}

VARIABLES
    pc,        \* where the orchestrator thread is
    conn,      \* the Connection handle's fields (up = FALSE: no Connection)
    loc,       \* locals of the running Connection::new / resume
    caller,    \* who called the running Connection::new
    attempt,   \* loop index of reconnect's cached-URL loop
    workers,   \* keepalive threads, one per command channel
    chanQ,     \* command channels: queued Status messages
    chanOpen,  \* command channels: is the mpsc::Sender still alive
    trState,   \* transports: "unused", "open", "shut"
    wire,      \* the frames written to transports since the last return of
               \* a user-level call, in order
    hist,      \* what the running user-level call has done so far, in order
    ret,       \* what the last user-level call returned
    events     \* environment events so far (see MaxEvents)

vars == <<pc, conn, loc, caller, attempt, workers, chanQ, chanOpen, trState,
          wire, hist, ret, events>>

\* ------------------------------------------------------------------ helpers
NoConn == [up |-> FALSE, chan |-> 0, receiver |-> 0, session_id |-> NoSession,
           last_sequence |-> 0, disp |-> 0]

NoLoc == [tr |-> 0, chan |-> 0, seq |-> 0, sid |-> NoSession, interval |-> 0]

NoWorker == [st |-> "none", sender |-> 0, last_sequence |-> 0, interval |-> 0,
             applied |-> NoSeq]

Frame(op, seq, sid, tr, by, kind, applied) ==
    [op |-> op, seq |-> seq, sid |-> sid, tr |-> tr, by |-> by, kind |-> kind,
     applied |-> applied]

\* identify(token): the op-2 payload (the token is the handle's constant).
identify == [op |-> OpIdentify, seq |-> 0]

Cmd(c, op, n, tr) == [cmd |-> c, op |-> op, n |-> n, tr |-> tr]

\* A transport that has not been opened yet, or 0 when none is left.
FreshTransport ==
    IF \E t \in Transports : trState[t] = "unused"
    THEN CHOOSE t \in Transports :
            trState[t] = "unused" /\ \A u \in Transports : u < t => trState[u] # "unused"
    ELSE 0

\* A channel (and worker slot) not used yet; one exists whenever a transport
\* was just opened, as every channel is created for a newly opened transport.
FreshChan ==
    CHOOSE c \in Chans :
        workers[c].st = "none" /\ \A d \in Chans : d < c => workers[d].st # "none"

\* send_json on transport t: fails on a shut socket, may fail on an open one.
WriteOutcomes(t) == IF trState[t] = "open" THEN BOOLEAN ELSE {FALSE}

\* The sequence number of a READY: it is the first dispatch of its session.
ReadySeqs == {1}

\* The heartbeat intervals a READY or RESUMED event may carry.
Intervals == {1}

\* let _ = self.keepalive_channel.send(status): queued while the worker's
\* Receiver exists, silently dropped once the worker has exited.
ChanSend(q, c, msgs) ==
    IF workers[c].st # "exited" THEN [q EXCEPT ![c] = @ \o msgs] ELSE q

\* An entry of hist; at is the length of wire when it happened (kept only for
\* the events the properties measure from).
Ev(e) == [e |-> e, n |-> 0, at |-> 0]
EvN(e, n) == [e |-> e, n |-> n, at |-> 0]
EvAt(e) == [e |-> e, n |-> 0, at |-> Len(wire)]

\* The Sender and Receiver halves of a handshake that failed go out of scope:
\* the socket is closed.
DropTransport(ts, t) == IF t = 0 THEN ts ELSE [ts EXCEPT ![t] = "shut"]

\* A shutdown that leaves the consumed Connection's Sender in place.
DropSender_Kept(c) == chanOpen

\* shutdown(mut self) takes the Connection by value: at its end, Ok or Err,
\* the Connection is dropped and with it the keepalive_channel Sender of
\* channel c.
DropSender(c) == [chanOpen EXCEPT ![c] = FALSE]

Init ==
    /\ pc = "start"
    /\ conn = NoConn
    /\ loc = NoLoc
    /\ caller = "connect"
    /\ attempt = 0
    /\ workers = [c \in Chans |-> NoWorker]
    /\ chanQ = [c \in Chans |-> <<>>]
    /\ chanOpen = [c \in Chans |-> FALSE]
    /\ trState = [t \in Transports |-> "unused"]
    /\ wire = <<>>
    /\ hist = <<>>
    /\ ret = "none"
    /\ events = 0

\* A user-level call returns r to the application: the windows hist and wire
\* start afresh.
Returns(r) ==
    /\ hist' = <<>>
    /\ wire' = <<>>
    /\ ret' = r

\* ------------------------------------------------------ Connection::new
\* Where a failed Connection::new returns to: connect's caller (which is left
\* without a Connection), the sleep of reconnect's loop, or (the REST
\* attempt, through try!) recv_event's caller.
NewErrPc ==
    CASE caller = "connect" -> "failed"
      [] caller = "reconnect" -> "reconnect_sleep"
      [] OTHER -> "idle"

\* Connection::new fails with its transport t (0: none opened) going out of
\* scope; in reconnect's loop the error is dropped (if let Ok(..)), elsewhere
\* it is what the user-level call returns.
NewFails(t, why) ==
    /\ pc' = NewErrPc
    /\ IF caller = "reconnect"
       THEN /\ hist' = hist \o <<Ev("new_err")>>
            /\ UNCHANGED <<wire, ret>>
       ELSE Returns(why)
    /\ trState' = DropTransport(trState, t)
    /\ loc' = NoLoc
    /\ UNCHANGED <<conn, caller, attempt, workers, chanQ, chanOpen, events>>

\* The application connects (Connection::new called for the first time).
Connect ==
    /\ pc = "start"
    /\ pc' = "new_open"
    /\ caller' = "connect"
    /\ hist' = <<Ev("new")>>
    /\ loc' = NoLoc
    /\ UNCHANGED <<conn, attempt, workers, chanQ, chanOpen, trState, wire, ret,
                   events>>

\* Url::parse, Client::connect, send, validate, begin().split().
New_Open ==
    /\ pc = "new_open"
    /\ \/ /\ FreshTransport # 0
          /\ trState' = [trState EXCEPT ![FreshTransport] = "open"]
          /\ loc' = [NoLoc EXCEPT !.tr = FreshTransport]
          /\ pc' = "new_identify"
          /\ UNCHANGED <<conn, caller, attempt, workers, chanQ, chanOpen, wire,
                         hist, ret, events>>
       \/ NewFails(0, "err")

\* The IDENTIFY frame Connection::new and resume write themselves.
IdentifyFrame(t) == Frame(identify.op, identify.seq, NoSession, t, Orch, "hs", NoSeq)

\* try!(sender.send_json(&identify))
New_Identify ==
    /\ pc = "new_identify"
    /\ \E ok \in WriteOutcomes(loc.tr) :
          IF ok
          THEN /\ wire' = Append(wire, IdentifyFrame(loc.tr))
               /\ pc' = "new_read"
               /\ UNCHANGED <<conn, loc, caller, attempt, workers, chanQ, chanOpen,
                              trState, hist, ret, events>>
          ELSE NewFails(loc.tr, "err")

\* GatewayEvent::Dispatch(seq, Event::Ready(event)): leave the loop.
New_ReadReady ==
    /\ pc = "new_read"
    /\ \E seq \in ReadySeqs, sid \in SessionIds, iv \in Intervals :
          loc' = [loc EXCEPT !.seq = seq, !.sid = sid, !.interval = iv]
    /\ pc' = "new_spawn"
    /\ UNCHANGED <<conn, caller, attempt, workers, chanQ, chanOpen, trState, wire,
                   hist, ret, events>>

\* An InvalidateSession during the handshake that is skipped without a new
\* IDENTIFY.
New_ReadInvalidate_NoResend ==
    /\ pc = "new_read"
    /\ events < MaxEvents
    /\ events' = events + 1
    /\ hist' = hist \o <<Ev("new_invalidate")>>
    /\ UNCHANGED <<pc, conn, loc, caller, attempt, workers, chanQ, chanOpen,
                   trState, wire, ret>>

\* GatewayEvent::InvalidateSession: send the identify again and keep reading.
New_ReadInvalidate ==
    /\ pc = "new_read"
    /\ events < MaxEvents
    /\ \E ok \in WriteOutcomes(loc.tr) :
          IF ok
          THEN /\ wire' = Append(wire, IdentifyFrame(loc.tr))
               /\ events' = events + 1
               /\ hist' = hist \o <<Ev("new_invalidate")>>
               /\ UNCHANGED <<pc, conn, loc, caller, attempt, workers, chanQ,
                              chanOpen, trState, ret>>
          ELSE NewFails(loc.tr, "err")

\* Any other frame: Err(Error::Protocol("Unexpected event during connection open")).
New_ReadOther ==
    /\ pc = "new_read"
    /\ NewFails(loc.tr, "protocol_err")

\* try!(receiver.recv_json(..)) fails.
New_ReadErr ==
    /\ pc = "new_read"
    /\ NewFails(loc.tr, "err")

\* mpsc::channel(), thread::Builder::spawn(keepalive(heartbeat_interval, sender, rx)),
\* Connection::inner_new(tx, receiver, .., Some(session_id), sequence, ready).
New_Spawn ==
    /\ pc = "new_spawn"
    /\ \/ LET c == FreshChan IN
          /\ workers' = [workers EXCEPT ![c] =
                [st |-> "drain", sender |-> loc.tr, last_sequence |-> 0,
                 interval |-> loc.interval, applied |-> NoSeq]]
          /\ chanOpen' = [chanOpen EXCEPT ![c] = TRUE]
          /\ IF caller = "connect"
             THEN /\ conn' = [up |-> TRUE, chan |-> c, receiver |-> loc.tr,
                              session_id |-> loc.sid, last_sequence |-> loc.seq,
                              disp |-> 0]
                  /\ loc' = NoLoc
                  /\ pc' = "idle"
                  /\ Returns("ok_ready")
             ELSE /\ conn' = conn
                  /\ loc' = [loc EXCEPT !.chan = c]
                  /\ pc' = "reconnect_swap"
                  /\ hist' = hist \o <<Ev("new_ok")>>
                  /\ UNCHANGED <<wire, ret>>
          /\ UNCHANGED <<caller, attempt, chanQ, trState, events>>
       \/ NewFails(loc.tr, "err")

\* ------------------------------------------------------------ keepalive
\* The worker's loop: after the 100 ms sleep it drains the channel with
\* try_recv (st = "drain"), then checks the timer (st = "timer").
\* A worker that looks at the newest command instead of the oldest.
K_Head_Newest(w) == chanQ[w][Len(chanQ[w])]

\* channel.try_recv(): the oldest queued command.
K_Head(w) == Head(chanQ[w])

K_Draining(w, c) ==
    /\ workers[w].st = "drain"
    /\ chanQ[w] # <<>>
    /\ K_Head(w).cmd = c

\* A worker that gives up when a send fails.
K_AfterSend_StopOnError(ok) == IF ok THEN "drain" ELSE "exited"

\* match sender.send_json(..) { Ok(()) => {}, Err(e) => warn!(..) }: whether
\* or not the send succeeded, the worker goes on with its loop.
K_AfterSend(ok) == "drain"

\* Ok(Status::SendMessage(val)): send it; an error is only logged.
K_SendMessage(w) ==
    /\ K_Draining(w, "SendMessage")
    /\ chanQ' = [chanQ EXCEPT ![w] = Tail(@)]
    /\ \E ok \in WriteOutcomes(workers[w].sender) :
          /\ workers' = [workers EXCEPT ![w].st = K_AfterSend(ok)]
          /\ wire' = IF ok
                     THEN Append(wire, Frame(K_Head(w).op, K_Head(w).n, NoSession,
                                             workers[w].sender, w, "msg", NoSeq))
                     ELSE wire
    /\ UNCHANGED <<pc, conn, loc, caller, attempt, chanOpen, trState,
                   hist, ret, events>>

\* A Sequence command that is received but not stored.
K_SequenceValue_Ignored(w, seq) == workers[w].last_sequence

\* Ok(Status::Sequence(seq)): last_sequence = seq.
K_SequenceValue(w, seq) == seq

K_Sequence(w) ==
    /\ K_Draining(w, "Sequence")
    /\ chanQ' = [chanQ EXCEPT ![w] = Tail(@)]
    /\ workers' = [workers EXCEPT ![w].last_sequence = K_SequenceValue(w, K_Head(w).n),
                                  ![w].applied = K_Head(w).n]
    /\ UNCHANGED <<pc, conn, loc, caller, attempt, chanOpen, trState, wire,
                   hist, ret, events>>

\* Ok(Status::ChangeInterval(interval)): timer = Timer::new(interval).
K_ChangeInterval(w) ==
    /\ K_Draining(w, "ChangeInterval")
    /\ chanQ' = [chanQ EXCEPT ![w] = Tail(@)]
    /\ workers' = [workers EXCEPT ![w].interval = K_Head(w).n]
    /\ UNCHANGED <<pc, conn, loc, caller, attempt, chanOpen, trState, wire,
                   hist, ret, events>>

\* A ChangeSender that leaves the worker on its old writer.
K_NewSender_Stale(w, new_sender) == workers[w].sender

\* Ok(Status::ChangeSender(new_sender)): sender = new_sender.
K_NewSender(w, new_sender) == new_sender

K_ChangeSender(w) ==
    /\ K_Draining(w, "ChangeSender")
    /\ chanQ' = [chanQ EXCEPT ![w] = Tail(@)]
    /\ workers' = [workers EXCEPT ![w].sender = K_NewSender(w, K_Head(w).tr)]
    /\ UNCHANGED <<pc, conn, loc, caller, attempt, chanOpen, trState, wire,
                   hist, ret, events>>

\* Err(TryRecvError::Empty): leave the inner loop; timer.check_tick() is true.
\* (An iteration whose check_tick() is false changes nothing and is left out:
\* the worker then sleeps and drains again, which st = "drain" already is.)
K_Empty(w) ==
    /\ workers[w].st = "drain"
    /\ chanQ[w] = <<>>
    /\ chanOpen[w]
    /\ events < MaxEvents
    /\ events' = events + 1
    /\ workers' = [workers EXCEPT ![w].st = "timer"]
    /\ UNCHANGED <<pc, conn, loc, caller, attempt, chanQ, chanOpen, trState, wire,
                   hist, ret>>

\* Err(TryRecvError::Disconnected): break 'outer, then
\* let _ = sender.get_mut().shutdown(Shutdown::Both): the socket is shut down
\* (the call's result is discarded).
K_Disconnected(w) ==
    /\ workers[w].st = "drain"
    /\ chanQ[w] = <<>>
    /\ ~chanOpen[w]
    /\ workers' = [workers EXCEPT ![w].st = "exited"]
    /\ trState' = [trState EXCEPT ![workers[w].sender] = "shut"]
    /\ UNCHANGED <<pc, conn, loc, caller, attempt, chanQ, chanOpen, wire,
                   hist, ret, events>>

\* The d of the periodic heartbeat: the worker's last_sequence.
K_HeartbeatValue(w) == workers[w].last_sequence

\* The tick: send {op: 1, d: last_sequence}; an error is only logged.  Then
\* the next iteration (sleep, drain).
K_Tick(w) ==
    /\ workers[w].st = "timer"
    /\ \E ok \in WriteOutcomes(workers[w].sender) :
          /\ workers' = [workers EXCEPT ![w].st = K_AfterSend(ok)]
          /\ wire' = IF ok
                     THEN Append(wire, Frame(OpHeartbeat, K_HeartbeatValue(w), NoSession,
                                             workers[w].sender, w, "tick",
                                             workers[w].applied))
                     ELSE wire
    /\ UNCHANGED <<pc, conn, loc, caller, attempt, chanQ, chanOpen, trState,
                   hist, ret, events>>

keepalive(w) ==
    \/ K_SendMessage(w)
    \/ K_Sequence(w)
    \/ K_ChangeInterval(w)
    \/ K_ChangeSender(w)
    \/ K_Empty(w)
    \/ K_Disconnected(w)
    \/ K_Tick(w)

\* ----------------------------------------------------------- reconnect
\* A loop bound that is off by one.
Reconnect_TryCached_OffByOne == attempt <= CachedAttempts

\* for _ in 0..2: is there another attempt on the cached URL?
Reconnect_TryCached == attempt < CachedAttempts

\* Connection::new(&self.ws_url, &self.token) in the loop.
Reconnect_Attempt ==
    /\ pc = "reconnect"
    /\ Reconnect_TryCached
    /\ pc' = "new_open"
    /\ caller' = "reconnect"
    /\ hist' = hist \o <<Ev("new")>>
    /\ UNCHANGED <<conn, loc, attempt, workers, chanQ, chanOpen, trState, wire,
                   ret, events>>

\* ::sleep_ms(1000) after a failed attempt, then the next iteration.
Reconnect_Sleep ==
    /\ pc = "reconnect_sleep"
    /\ pc' = "reconnect"
    /\ attempt' = attempt + 1
    /\ hist' = hist \o <<Ev("sleep")>>
    /\ UNCHANGED <<conn, loc, caller, workers, chanQ, chanOpen, trState, wire,
                   ret, events>>

\* try!(::Discord { .. }.connect()): the REST request for a gateway URL, then
\* one Connection::new on the URL it returns; an error of either is returned.
Discord_connect ==
    /\ pc = "reconnect"
    /\ ~Reconnect_TryCached
    /\ \/ /\ pc' = "new_open"
          /\ caller' = "rest"
          /\ hist' = hist \o <<Ev("rest"), Ev("new")>>
          /\ UNCHANGED <<wire, ret>>
       \/ /\ pc' = "idle"
          /\ caller' = caller
          /\ Returns("rest_err")
    /\ UNCHANGED <<conn, loc, attempt, workers, chanQ, chanOpen, trState, events>>

\* try!(::std::mem::replace(self, conn).shutdown());
\* self.session_id = Some(ready.session_id.clone()); Ok(ready)
\* The old Connection is consumed by shutdown: its channel Sender is dropped
\* whether or not the socket shutdown succeeds.
Reconnect_Swap ==
    /\ pc = "reconnect_swap"
    /\ chanOpen' = DropSender(conn.chan)
    /\ conn' = [up |-> TRUE, chan |-> loc.chan, receiver |-> loc.tr,
                session_id |-> loc.sid, last_sequence |-> loc.seq, disp |-> 0]
    /\ pc' = "idle"
    /\ loc' = NoLoc
    /\ \E ok \in BOOLEAN :
          IF ok
          THEN /\ trState' = [trState EXCEPT ![conn.receiver] = "shut"]
               /\ Returns("ok_ready")
          ELSE /\ trState' = trState
               /\ Returns("shutdown_err")
    /\ UNCHANGED <<caller, attempt, workers, chanQ, events>>

\* reconnect() is entered: debug!("Reconnecting..."), loop index 0.
EnterReconnect(h) ==
    /\ pc' = "reconnect"
    /\ attempt' = 0
    /\ hist' = h \o <<Ev("reconnect")>>

\* -------------------------------------------------------------- resume
\* A failed resume whose error recv_event returns (try!) instead of going on
\* to reconnect().
ResumeFails_Returns(t, why) ==
    /\ pc' = "idle"
    /\ Returns("err")
    /\ trState' = DropTransport(trState, t)
    /\ loc' = NoLoc
    /\ UNCHANGED <<conn, caller, attempt, workers, chanQ, chanOpen, events>>

\* resume fails (try! or the Protocol error): its new transport t, if any,
\* goes out of scope, and recv_event falls through to reconnect().
ResumeFails(t, why) ==
    /\ EnterReconnect(hist \o <<Ev(why)>>)
    /\ trState' = DropTransport(trState, t)
    /\ loc' = NoLoc
    /\ UNCHANGED <<conn, caller, workers, chanQ, chanOpen, wire, ret, events>>

\* try!(self.receiver.get_mut().get_mut().shutdown(Shutdown::Both))
Resume_Shutdown ==
    /\ pc = "resume_shutdown"
    /\ \E ok \in BOOLEAN :
          IF ok
          THEN /\ trState' = [trState EXCEPT ![conn.receiver] = "shut"]
               /\ pc' = "resume_open"
               /\ UNCHANGED <<conn, loc, caller, attempt, workers, chanQ, chanOpen,
                              wire, hist, ret, events>>
          ELSE ResumeFails(0, "resume_err")

\* Url::parse, Client::connect, send, validate, begin().split().
Resume_Open ==
    /\ pc = "resume_open"
    /\ \/ /\ FreshTransport # 0
          /\ trState' = [trState EXCEPT ![FreshTransport] = "open"]
          /\ loc' = [loc EXCEPT !.tr = FreshTransport]
          /\ pc' = "resume_send"
          /\ UNCHANGED <<conn, caller, attempt, workers, chanQ, chanOpen, wire,
                         hist, ret, events>>
       \/ ResumeFails(0, "resume_err")

\* An op-6 frame that does not say where the session stopped.
Resume_Frame_SeqZero ==
    Frame(OpResume, 0, loc.sid, loc.tr, Orch, "hs", NoSeq)

\* The op-6 frame: seq = self.last_sequence, session_id = the argument.
Resume_Frame ==
    Frame(OpResume, conn.last_sequence, loc.sid, loc.tr, Orch, "hs", NoSeq)

\* try!(sender.send_json(&resume))
Resume_Send ==
    /\ pc = "resume_send"
    /\ \E ok \in WriteOutcomes(loc.tr) :
          IF ok
          THEN /\ wire' = Append(wire, Resume_Frame)
               /\ pc' = "resume_read"
               /\ UNCHANGED <<conn, loc, caller, attempt, workers, chanQ, chanOpen,
                              trState, hist, ret, events>>
          ELSE ResumeFails(loc.tr, "resume_err")

\* The sequence numbers a dispatch read on the handle's session may carry: the
\* gateway numbers the dispatches of one session upwards, and a READY opens a
\* session (its number is unrelated to the old session's).
GatewaySeqs(ev) ==
    IF ev = "Ready" THEN ReadySeqs ELSE conn.last_sequence..MaxSeq

\* The events a dispatch may carry.  The gateway sends READY in answer to an
\* IDENTIFY: identified says whether the client has sent (or queued) one on
\* this connection since its last READY.
DispatchKinds(identified) ==
    IF identified THEN EventKinds ELSE EventKinds \ {"Ready"}

\* resume has answered an InvalidateSession with an IDENTIFY.
Resume_Identified == \E i \in DOMAIN hist : hist[i].e = "resume_invalidate"

\* The session id a dispatched event carries (Ready only).
EventSids(ev) == IF ev = "Ready" THEN SessionIds ELSE {NoSession}

\* Ok(event) as ret records it.
RetOk(ev) == IF ev = "Ready" THEN "ok_ready" ELSE "ok_event"

\* A resume that starts the sequence bookkeeping afresh.
Resume_Sequence_Reset(seq) == 0

\* self.last_sequence = seq
Resume_Sequence(seq) == seq

\* GatewayEvent::Dispatch(seq, event): adopt a Ready's session id, record seq,
\* leave the loop; then self.receiver = receiver, send ChangeSender(sender),
\* Ok(first_event), which recv_event returns.
Resume_ReadDispatch ==
    /\ pc = "resume_read"
    /\ \E ev \in DispatchKinds(Resume_Identified) :
       \E seq \in GatewaySeqs(ev), sid \in EventSids(ev) :
          /\ conn' = [conn EXCEPT !.session_id = IF ev = "Ready" THEN sid ELSE @,
                                  !.last_sequence = Resume_Sequence(seq),
                                  !.receiver = loc.tr,
                                  !.disp = 1]
          /\ Returns(RetOk(ev))
    /\ chanQ' = ChanSend(chanQ, conn.chan, <<Cmd("ChangeSender", 0, 0, loc.tr)>>)
    /\ pc' = "idle"
    /\ loc' = NoLoc
    /\ UNCHANGED <<caller, attempt, workers, chanOpen, trState, events>>

\* A resume that forgets the session when it is invalidated, as recv_event
\* does.
Resume_ReadInvalidate_ClearsSession ==
    /\ pc = "resume_read"
    /\ events < MaxEvents
    /\ \E ok \in WriteOutcomes(loc.tr) :
          IF ok
          THEN /\ wire' = Append(wire, IdentifyFrame(loc.tr))
               /\ events' = events + 1
               /\ hist' = hist \o <<Ev("resume_invalidate")>>
               /\ conn' = [conn EXCEPT !.session_id = NoSession]
               /\ UNCHANGED <<pc, loc, caller, attempt, workers, chanQ,
                              chanOpen, trState, ret>>
          ELSE ResumeFails(loc.tr, "resume_err")

\* GatewayEvent::InvalidateSession: try!(sender.send_json(&identify(..))).
Resume_ReadInvalidate ==
    /\ pc = "resume_read"
    /\ events < MaxEvents
    /\ \E ok \in WriteOutcomes(loc.tr) :
          IF ok
          THEN /\ wire' = Append(wire, IdentifyFrame(loc.tr))
               /\ events' = events + 1
               /\ hist' = hist \o <<Ev("resume_invalidate")>>
               /\ UNCHANGED <<pc, conn, loc, caller, attempt, workers, chanQ,
                              chanOpen, trState, ret>>
          ELSE ResumeFails(loc.tr, "resume_err")

\* Any other frame: Err(Error::Protocol("Unexpected event during resume")).
Resume_ReadOther ==
    /\ pc = "resume_read"
    /\ ResumeFails(loc.tr, "resume_protocol_err")

\* try!(receiver.recv_json(..)) fails.
Resume_ReadErr ==
    /\ pc = "resume_read"
    /\ ResumeFails(loc.tr, "resume_err")

\* ---------------------------------------------------------- recv_event
\* The application calls recv_event.
RecvEvent ==
    /\ pc = "idle"
    /\ conn.up
    /\ pc' = "recv"
    /\ hist' = <<>>
    /\ UNCHANGED <<conn, loc, caller, attempt, workers, chanQ, chanOpen, trState,
                   wire, ret, events>>

\* Ok(GatewayEvent::Dispatch(sequence, event))
Recv_Dispatch ==
    /\ pc = "recv"
    /\ events < MaxEvents
    /\ events' = events + 1
    /\ \E ev \in DispatchKinds(conn.session_id = NoSession) :
       \E seq \in GatewaySeqs(ev), iv \in Intervals :
          /\ conn' = [conn EXCEPT !.last_sequence = seq, !.disp = 1]
          /\ chanQ' = ChanSend(chanQ, conn.chan,
                        <<Cmd("Sequence", 0, seq, 0)>> \o
                        (IF ev = "Resumed" THEN <<Cmd("ChangeInterval", 0, iv, 0)>>
                         ELSE <<>>))
          /\ Returns(RetOk(ev))
    /\ pc' = "idle"
    /\ UNCHANGED <<loc, caller, attempt, workers, chanOpen, trState>>

\* A Heartbeat handler that answers and returns instead of reading on.
\* A reply that carries the orchestrator's own last_sequence.
HeartbeatMap_LastSequence(sequence) ==
    Cmd("SendMessage", OpHeartbeat, conn.last_sequence, 0)

\* let map = ObjectBuilder::new().insert("op", 1).insert("d", sequence):
\* the reply to a server Heartbeat, wrapped in Status::SendMessage.
HeartbeatMap(sequence) == Cmd("SendMessage", OpHeartbeat, sequence, 0)

Recv_Heartbeat_Returns ==
    /\ pc = "recv"
    /\ events < MaxEvents
    /\ events' = events + 1
    /\ \E n \in 0..MaxSeq :
          chanQ' = ChanSend(chanQ, conn.chan, <<HeartbeatMap(n)>>)
    /\ pc' = "idle"
    /\ Returns("ok")
    /\ UNCHANGED <<conn, loc, caller, attempt, workers, chanOpen, trState>>

\* Ok(GatewayEvent::Heartbeat(sequence)): queue {op: 1, d: sequence}, recurse.
Recv_Heartbeat ==
    /\ pc = "recv"
    /\ events < MaxEvents
    /\ events' = events + 1
    /\ \E n \in 0..MaxSeq :
          /\ chanQ' = ChanSend(chanQ, conn.chan, <<HeartbeatMap(n)>>)
          /\ hist' = hist \o <<EvN("heartbeat", n)>>
    /\ UNCHANGED <<pc, conn, loc, caller, attempt, workers, chanOpen, trState, wire,
                   ret>>

\* Ok(GatewayEvent::Reconnect): self.reconnect().map(Event::Ready)
Recv_Reconnect ==
    /\ pc = "recv"
    /\ events < MaxEvents
    /\ events' = events + 1
    /\ EnterReconnect(hist \o <<EvN("op7", conn.session_id)>>)
    /\ UNCHANGED <<conn, loc, caller, workers, chanQ, chanOpen, trState, wire,
                   ret>>

\* An InvalidateSession handler that keeps the session id.
Recv_InvalidateSession_Keep(c) == c

\* self.session_id = None
Recv_InvalidateSession(c) == [c EXCEPT !.session_id = NoSession]

\* Ok(GatewayEvent::InvalidateSession): session_id = None, queue an identify,
\* recurse.
Recv_Invalidate ==
    /\ pc = "recv"
    /\ events < MaxEvents
    /\ events' = events + 1
    /\ conn' = Recv_InvalidateSession(conn)
    /\ chanQ' = ChanSend(chanQ, conn.chan, <<Cmd("SendMessage", identify.op, identify.seq, 0)>>)
    /\ hist' = hist \o <<EvAt("invalidate")>>
    /\ UNCHANGED <<pc, loc, caller, attempt, workers, chanOpen, trState, wire, ret>>

\* The close-code test with the 4006 case forgotten.
Recv_CodeResumable_No4006(code) == code # CloseNormal

\* if num != Some(1000) && num != Some(4006)
Recv_CodeResumable(code) == code # CloseNormal /\ code # CloseSessionGone

\* A recovery that does not look at session_id.
Recv_SessionHeld_Always == TRUE

\* if let Some(session_id) = self.session_id.clone()
Recv_SessionHeld == conn.session_id # NoSession

\* A recovery that never tries resume.
Recv_Recover_ReconnectOnly(allowed, ev) ==
    /\ EnterReconnect(hist \o <<ev>>)
    /\ loc' = loc

\* The read failed and recv_event recovers: resume(session_id) when allowed
\* and a session id is held, reconnect() otherwise.
Recv_Recover(allowed, ev) ==
    IF allowed /\ Recv_SessionHeld
    THEN /\ pc' = "resume_shutdown"
         /\ loc' = [NoLoc EXCEPT !.sid = conn.session_id]
         /\ hist' = hist \o <<ev, Ev("resume")>>
         /\ attempt' = attempt
    ELSE /\ EnterReconnect(hist \o <<ev>>)
         /\ loc' = loc

\* Err(Error::WebSocket(err))
Recv_WebSocketErr ==
    /\ pc = "recv"
    /\ events < MaxEvents
    /\ events' = events + 1
    /\ Recv_Recover(TRUE, EvN("ws_err", conn.session_id))
    /\ UNCHANGED <<conn, caller, workers, chanQ, chanOpen, trState, wire, ret>>

\* Err(Error::Closed(num, message))
Recv_Closed ==
    /\ pc = "recv"
    /\ events < MaxEvents
    /\ events' = events + 1
    /\ \E code \in CloseCodes :
          Recv_Recover(Recv_CodeResumable(code), EvN("closed", code))
    /\ UNCHANGED <<conn, caller, workers, chanQ, chanOpen, trState, wire, ret>>

\* Err(error) => Err(error)
Recv_OtherErr ==
    /\ pc = "recv"
    /\ events < MaxEvents
    /\ events' = events + 1
    /\ pc' = "idle"
    /\ Returns("err")
    /\ UNCHANGED <<conn, loc, caller, attempt, workers, chanQ, chanOpen, trState>>

\* ------------------------------------------------- other user-level calls
\* set_game: queue the op-3 frame.
set_game ==
    /\ pc = "idle"
    /\ conn.up
    /\ events < MaxEvents
    /\ events' = events + 1
    /\ chanQ' = ChanSend(chanQ, conn.chan, <<Cmd("SendMessage", OpStatus, 0, 0)>>)
    /\ Returns("ok")
    /\ UNCHANGED <<pc, conn, loc, caller, attempt, workers, chanOpen, trState>>

\* __download_members: queue the op-8 frame.
download_members ==
    /\ pc = "idle"
    /\ conn.up
    /\ events < MaxEvents
    /\ events' = events + 1
    /\ chanQ' = ChanSend(chanQ, conn.chan, <<Cmd("SendMessage", OpMembers, 0, 0)>>)
    /\ Returns("ok")
    /\ UNCHANGED <<pc, conn, loc, caller, attempt, workers, chanOpen, trState>>

\* shutdown(mut self): shut the socket down; self is consumed, so the channel
\* Sender is dropped whether or not that succeeds.
shutdown ==
    /\ pc = "idle"
    /\ conn.up
    /\ chanOpen' = DropSender(conn.chan)
    /\ conn' = NoConn
    /\ pc' = "closed"
    /\ \E ok \in BOOLEAN :
          IF ok
          THEN /\ trState' = [trState EXCEPT ![conn.receiver] = "shut"]
               /\ Returns("ok")
          ELSE /\ trState' = trState
               /\ Returns("shutdown_err")
    /\ UNCHANGED <<loc, caller, attempt, workers, chanQ, events>>

\* ------------------------------------------------------- specification
Orchestrator ==
    \/ Connect
    \/ New_Open
    \/ New_Identify
    \/ New_ReadReady
    \/ New_ReadInvalidate
    \/ New_ReadOther
    \/ New_ReadErr
    \/ New_Spawn
    \/ RecvEvent
    \/ Recv_Dispatch
    \/ Recv_Heartbeat
    \/ Recv_Reconnect
    \/ Recv_Invalidate
    \/ Recv_WebSocketErr
    \/ Recv_Closed
    \/ Recv_OtherErr
    \/ Resume_Shutdown
    \/ Resume_Open
    \/ Resume_Send
    \/ Resume_ReadDispatch
    \/ Resume_ReadInvalidate
    \/ Resume_ReadOther
    \/ Resume_ReadErr
    \/ Reconnect_Attempt
    \/ Reconnect_Sleep
    \/ Discord_connect
    \/ Reconnect_Swap
    \/ set_game
    \/ download_members
    \/ shutdown

Worker == \E w \in Chans : keepalive(w)

Next == Orchestrator \/ Worker

Spec == Init /\ [][Next]_vars

\* Every keepalive thread keeps running (the scheduler does not starve it).
FairSpec == Init /\ [][Next]_vars /\ \A w \in Chans : WF_vars(keepalive(w))

\* ------------------------------------------------------------ properties
\* hist holds an entry e.
HistHas(e) == \E i \in DOMAIN hist : hist[i].e = e

\* The orchestrator is inside resume().
ResumePcs == {"resume_shutdown", "resume_open", "resume_send", "resume_read"}

\* The orchestrator is inside reconnect() (with caller # "connect").
ReconnectPcs == {"reconnect", "reconnect_sleep", "reconnect_swap", "new_open",
                 "new_identify", "new_read", "new_spawn"}

\* Entry i of hist: the read failed with Closed(1000) or Closed(4006).
FinalClose(i) ==
    hist[i].e = "closed" /\ hist[i].n \in {CloseNormal, CloseSessionGone}

\* Entry i of hist: the read failed with a WebSocket error or with Closed(code),
\* code neither 1000 nor 4006.
ResumableFailure(i) ==
    \/ hist[i].e = "ws_err"
    \/ hist[i].e = "closed" /\ hist[i].n \notin {CloseNormal, CloseSessionGone}

\* C1: once recv_event's read has failed with Closed(1000) or Closed(4006),
\* whatever session_id is, the call goes straight into reconnect(): resume()
\* is not invoked, no op-6 frame is written by anyone, and every frame the
\* orchestrator writes is the IDENTIFY of Connection::new.
C1_FinalCloseNeverResumes ==
    \A i \in DOMAIN hist : FinalClose(i) =>
        /\ i < Len(hist) /\ hist[i + 1].e = "reconnect"
        /\ ~HistHas("resume")
        /\ pc \in ReconnectPcs
        /\ \A j \in DOMAIN wire :
              /\ wire[j].op # OpResume
              /\ wire[j].by = Orch => wire[j] = IdentifyFrame(wire[j].tr)

\* C1's case: Closed(4006) while a session id is held, and the reconnect has
\* written its IDENTIFY.
C1_Witness ==
    \E i \in DOMAIN hist :
        /\ FinalClose(i) /\ hist[i].n = CloseSessionGone
        /\ conn.session_id # NoSession
        /\ \E j \in DOMAIN wire : wire[j].by = Orch /\ wire[j].op = OpIdentify

\* C2: once recv_event's read has failed with a WebSocket error or a close
\* code other than 1000 and 4006 while a session id is held, resume() is what
\* the call does next, and it is inside reconnect() only after that resume
\* has failed (a resume that succeeds returns, and no reconnect is started).
C2_ResumeBeforeReconnect ==
    \A i \in DOMAIN hist : ResumableFailure(i) /\ conn.session_id # NoSession =>
        /\ i < Len(hist) /\ hist[i + 1].e = "resume"
        /\ pc \in ResumePcs \cup ReconnectPcs
        /\ pc \in ResumePcs <=> ~HistHas("reconnect")
        /\ \A k \in DOMAIN hist : hist[k].e = "reconnect" =>
              /\ k > i + 2
              /\ hist[k - 1].e \in {"resume_err", "resume_protocol_err"}

\* C2's case: Closed(4000) with a session id, the resume wrote its RESUME and
\* then failed, and the call is now in reconnect().
C2_Witness ==
    \E i \in DOMAIN hist :
        /\ hist[i].e = "closed" /\ hist[i].n = CloseUnknown
        /\ conn.session_id # NoSession
        /\ pc \in ReconnectPcs
        /\ \E j \in DOMAIN wire : wire[j].op = OpResume

\* Entry i of hist: recv_event read an InvalidateSession frame.
Invalidated(i) == hist[i].e = "invalidate"

\* This step is recv_event reading an InvalidateSession frame.
InvalidateStep ==
    /\ pc = "recv"
    /\ Len(hist') = Len(hist) + 1
    /\ hist'[Len(hist')].e = "invalidate"

\* C3 as claimed: after recv_event has read InvalidateSession, session_id is
\* None and the next frame written to a transport, by anyone, is an IDENTIFY.
C3_NextFrameIsIdentify ==
    \A i \in DOMAIN hist : Invalidated(i) =>
        /\ conn.session_id = NoSession
        /\ Len(wire) > hist[i].at => wire[hist[i].at + 1].op = OpIdentify

\* C3 as amended: reading InvalidateSession sets session_id to None and
\* appends an IDENTIFY SendMessage to the worker's command queue, behind what
\* is already queued (when the worker still runs); whatever is written after
\* that, no frame is a RESUME.
C3_IdentifyQueuedNoResume ==
    /\ [](\A i \in DOMAIN hist : Invalidated(i) =>
            /\ conn.session_id = NoSession
            /\ \A j \in DOMAIN wire : j > hist[i].at => wire[j].op # OpResume)
    /\ [][InvalidateStep =>
            /\ conn'.session_id = NoSession
            /\ workers[conn.chan].st # "exited" =>
                  chanQ'[conn.chan] =
                      Append(chanQ[conn.chan], Cmd("SendMessage", OpIdentify, 0, 0))]_vars

\* C3's case: after the InvalidateSession the worker first wrote a heartbeat
\* tick and then the queued IDENTIFY.
C3_Witness ==
    \E i \in DOMAIN hist :
        /\ Invalidated(i)
        /\ Len(wire) >= hist[i].at + 2
        /\ wire[hist[i].at + 1].kind = "tick"
        /\ wire[hist[i].at + 2].op = OpIdentify
        /\ wire[hist[i].at + 2].by = conn.chan

\* Entry i of hist: what made recv_event recover (a failed read or an op-7
\* Reconnect frame).
Trigger(i) == hist[i].e \in {"ws_err", "closed", "op7"}

\* C4 as claimed: at a recovery of recv_event, session_id is None exactly when
\* the recovery does not go through resume().
C4_NoneIffReconnect ==
    \A i \in DOMAIN hist : Trigger(i) =>
        (conn.session_id = NoSession <=> ~HistHas("resume"))

\* C4 as amended: while session_id is None nobody is in resume() and no
\* RESUME is on the wire; a recovery goes through resume() exactly when a
\* session id is held and the trigger is a WebSocket error or a close code
\* other than 1000 and 4006, and otherwise straight into reconnect(); a
\* RESUME that is written carries the held session id, and resume() reads
\* only after it has written one with seq = last_sequence.
C4_ResumeIffSessionAndResumable ==
    /\ conn.session_id = NoSession =>
          /\ pc \notin ResumePcs
          /\ \A j \in DOMAIN wire : wire[j].op # OpResume
    /\ \A i \in DOMAIN hist : Trigger(i) =>
          /\ HistHas("resume") <=> (conn.session_id # NoSession /\ ResumableFailure(i))
          /\ i < Len(hist)
          /\ hist[i + 1].e = IF HistHas("resume") THEN "resume" ELSE "reconnect"
    /\ \A j \in DOMAIN wire : wire[j].op = OpResume =>
          /\ HistHas("resume")
          /\ wire[j].by = Orch
          /\ wire[j].sid = conn.session_id
    /\ pc = "resume_read" =>
          \E j \in DOMAIN wire :
              /\ wire[j].op = OpResume
              /\ wire[j].seq = conn.last_sequence
              /\ wire[j].tr = loc.tr

\* C4's case: an op-7 Reconnect frame read while a session id is held, and
\* the reconnect has written its IDENTIFY.
C4_Witness ==
    \E i \in DOMAIN hist :
        /\ hist[i].e = "op7"
        /\ conn.session_id # NoSession
        /\ \E j \in DOMAIN wire : wire[j].by = Orch /\ wire[j].op = OpIdentify

\* This step appends a frame to wire.
Writes == Len(wire') = Len(wire) + 1

\* The orchestrator is at a handshake write of Connection::new or resume.
HandshakePcs == {"new_identify", "new_read", "resume_send", "resume_read"}

\* A keepalive thread that runs.
LiveWorker(w) == workers[w].st \in {"drain", "timer"}

\* C5 as claimed: every frame is written by a keepalive worker, never by the
\* orchestrator.
C5_OnlyWorkerWrites == \A j \in DOMAIN wire : wire[j].by # Orch

\* C5 as amended: the orchestrator writes only the handshake frames of
\* Connection::new and resume (IDENTIFY, RESUME), on the transport it has just
\* opened and whose writer no worker holds or has been sent yet; every other
\* frame is written by a running worker on its own sender; no two workers
\* hold the same writer; and a worker's sender changes only by a
\* ChangeSender command, to the writer the command carries.
C5_OrchestratorWritesHandshakeOnly ==
    /\ [](\A v, w \in Chans :
            v # w /\ workers[v].st # "none" /\ workers[w].st # "none"
                => workers[v].sender # workers[w].sender)
    /\ [][Writes =>
            LET f == wire'[Len(wire')] IN
            IF f.by = Orch
            THEN /\ pc \in HandshakePcs
                 /\ f.op \in {OpIdentify, OpResume}
                 /\ f.tr = loc.tr
                 /\ \A w \in Chans :
                       /\ workers[w].sender # f.tr
                       /\ \A k \in DOMAIN chanQ[w] : chanQ[w][k].tr # f.tr
            ELSE /\ LiveWorker(f.by)
                 /\ f.tr = workers[f.by].sender]_vars
    /\ [][\A w \in Chans :
            /\ (workers[w].st # "none" /\ workers'[w].sender # workers[w].sender)
                  => K_Draining(w, "ChangeSender")
            /\ (K_Draining(w, "ChangeSender") /\ chanQ'[w] = Tail(chanQ[w]))
                  => workers'[w].sender = K_Head(w).tr]_vars

\* C5's case: reconnect's Connection::new wrote its IDENTIFY on the new
\* transport itself, and after the spawn the new worker wrote on it.
C5_Witness ==
    /\ pc = "reconnect_swap"
    /\ \E j, k \in DOMAIN wire :
          /\ j < k
          /\ wire[j].by = Orch /\ wire[j].tr = loc.tr
          /\ wire[k].by = loc.chan /\ wire[k].tr = loc.tr

\* Connection handles in existence: self, and the one reconnect() has built
\* and not yet swapped in.
Handles ==
    (IF conn.up THEN 1 ELSE 0) + (IF pc = "reconnect_swap" THEN 1 ELSE 0)

\* C6: the workers whose command channel still has its Sender are exactly one
\* per Connection handle, each running, and self's is the one on self's
\* channel; a worker exits only on finding its channel empty and without
\* Sender, and then its writer is shut down (so a failed send does not stop
\* it); and a running worker whose channel has lost its Sender eventually
\* exits.
C6_OneWorkerPerHandle ==
    /\ [](/\ Cardinality({w \in Chans : chanOpen[w]}) = Handles
          /\ \A w \in Chans : chanOpen[w] => LiveWorker(w)
          /\ conn.up => chanOpen[conn.chan])
    /\ [][\A w \in Chans :
            (workers[w].st # "exited" /\ workers'[w].st = "exited") =>
                /\ ~chanOpen[w]
                /\ chanQ[w] = <<>>
                /\ trState'[workers[w].sender] = "shut"]_vars
    /\ \A w \in Chans :
          (LiveWorker(w) /\ ~chanOpen[w]) ~> (workers[w].st = "exited")

\* C6's case: after a reconnect the superseded worker has exited and self's
\* worker runs, although its writer's socket is already shut.
C6_Witness ==
    /\ conn.up
    /\ LiveWorker(conn.chan)
    /\ trState[workers[conn.chan].sender] = "shut"
    /\ \E w \in Chans : w # conn.chan /\ workers[w].st = "exited"

C8_FirstHeartbeatCarriesReadySeq ==
    (conn.up /\ caller = "connect" /\ conn.disp = 0) =>
        \A j \in DOMAIN wire :
            (wire[j].kind = "tick" /\ wire[j].by = conn.chan)
                => wire[j].seq = conn.last_sequence

\* C9 as claimed: the handle's last_sequence never decreases.
C9_LastSequenceMonotonic ==
    [][(conn.up /\ conn'.up) => conn'.last_sequence >= conn.last_sequence]_vars

\* C9 as amended: with a gateway that numbers the dispatches of one session
\* upwards, last_sequence decreases only where a new session's READY is
\* adopted: reconnect() swapping in the new Connection, or recv_event or
\* resume returning a READY dispatch; it then holds that READY's number.
C9_DecreasesOnlyOnNewSession ==
    [][(conn.up /\ conn'.up /\ conn'.last_sequence < conn.last_sequence) =>
          /\ \/ pc = "reconnect_swap"
             \/ pc \in {"recv", "resume_read"} /\ ret' = "ok_ready"
          /\ pc' = "idle"
          /\ conn'.last_sequence \in ReadySeqs]_vars

\* C9's case: the handle's last_sequence is below a number an earlier
\* worker of this handle was sent (and applied) as Sequence.
C9_Witness ==
    /\ conn.up
    /\ \E w \in Chans :
          /\ w # conn.chan
          /\ workers[w].applied # NoSeq
          /\ conn.last_sequence < workers[w].applied

\* What the running reconnect() has done so far: the names of hist's entries
\* after "reconnect", the re-identifies inside a handshake left out.
ReconnectSteps ==
    LET k == CHOOSE i \in DOMAIN hist : hist[i].e = "reconnect"
        rest == SelectSeq(SubSeq(hist, k + 1, Len(hist)),
                          LAMBDA x : x.e # "new_invalidate")
    IN  [i \in DOMAIN rest |-> rest[i].e]

\* The longest course of a reconnect(): two failed attempts on the cached
\* URL, a pause after each, the REST request, a third attempt.
FullReconnect ==
    <<"new", "new_err", "sleep", "new", "new_err", "sleep", "rest", "new">>

IsPrefix(a, b) ==
    Len(a) <= Len(b) /\ \A i \in DOMAIN a : a[i] = b[i]

\* The orchestrator is inside Connection::new.
NewPcs == {"new_open", "new_identify", "new_read", "new_spawn"}

\* C10: a reconnect() runs a prefix of FullReconnect, ended early by the
\* first attempt that succeeds (after which it only swaps and returns): at
\* most two attempts on the cached URL with a pause after the first, the REST
\* request only after both failed and at most once, at most three attempts
\* in all; a failure of the REST request or of the third attempt is returned
\* to the caller.
C10_ReconnectAttempts ==
    /\ [](HistHas("reconnect") =>
            LET n == ReconnectSteps IN
            /\ Cardinality({i \in DOMAIN hist : hist[i].e = "reconnect"}) = 1
            /\ \/ IsPrefix(n, FullReconnect)
               \/ /\ Len(n) >= 2
                  /\ n[Len(n)] = "new_ok"
                  /\ n[Len(n) - 1] = "new"
                  /\ IsPrefix(SubSeq(n, 1, Len(n) - 1), FullReconnect)
            /\ pc = "reconnect_swap" <=> (n # <<>> /\ n[Len(n)] = "new_ok")
            /\ pc \in ReconnectPcs)
    /\ [][pc = "reconnect_swap" /\ pc' # pc => pc' = "idle"]_vars
    /\ [][(pc = "reconnect" /\ ~Reconnect_TryCached /\ pc' = "idle")
             => ret' = "rest_err"]_vars
    /\ [][(pc \in NewPcs /\ caller = "rest" /\ pc' = "idle")
             => (ret' \in {"err", "protocol_err"} /\ conn' = conn)]_vars

\* C10's case: both attempts on the cached URL failed, the REST request was
\* made, and the third attempt is under way.
C10_Witness ==
    /\ HistHas("reconnect")
    /\ ReconnectSteps = FullReconnect
    /\ caller = "rest"
    /\ pc = "new_open"

\* InvalidateSession frames the running Connection::new has read.
NewInvalidates ==
    Cardinality({i \in DOMAIN hist : hist[i].e = "new_invalidate"})

\* IDENTIFY frames the orchestrator has written on transport t.
IdentifiesOn(t) ==
    Cardinality({j \in DOMAIN wire :
                    wire[j].op = OpIdentify /\ wire[j].by = Orch /\ wire[j].tr = t})

\* C11: while connect() waits for the READY, and when it has read it, it has
\* written one IDENTIFY more than it has read InvalidateSession frames, and
\* nothing else; it then returns Ok with the READY's session id and sequence
\* and one spawned worker; a connect() that failed (a Protocol error for an
\* unexpected frame, or another error) leaves no Connection and no worker.
C11_ConnectHandshake ==
    /\ []((caller = "connect" /\ pc \in {"new_read", "new_spawn"}) =>
            /\ IdentifiesOn(loc.tr) = NewInvalidates + 1
            /\ Len(wire) = NewInvalidates + 1)
    /\ [](pc = "failed" =>
            /\ ret \in {"err", "protocol_err"}
            /\ ~conn.up
            /\ \A w \in Chans : workers[w].st = "none" /\ ~chanOpen[w])
    /\ [][(caller = "connect" /\ pc = "new_read" /\ pc' \notin {"new_read", "new_spawn"})
             => (pc' = "failed" /\ workers' = workers)]_vars
    /\ [][(caller = "connect" /\ pc = "new_spawn" /\ pc' = "idle") =>
            /\ ret' = "ok_ready"
            /\ conn'.up
            /\ conn'.session_id = loc.sid
            /\ conn'.last_sequence = loc.seq
            /\ conn'.receiver = loc.tr
            /\ Cardinality({w \in Chans : workers'[w].st # "none"}) = 1
            /\ workers'[conn'.chan].sender = loc.tr]_vars

\* C11's case: connect() has read two InvalidateSession frames and then the
\* READY, having written three IDENTIFY frames.
C11_Witness ==
    /\ caller = "connect"
    /\ pc = "new_spawn"
    /\ NewInvalidates = 2
    /\ IdentifiesOn(loc.tr) = 3

\* The commands this step appends to self's command channel (the orchestrator
\* is the only sender, and a worker's step only takes the head).
Queued ==
    IF conn.up /\ Len(chanQ'[conn.chan]) > Len(chanQ[conn.chan])
    THEN SubSeq(chanQ'[conn.chan], Len(chanQ[conn.chan]) + 1, Len(chanQ'[conn.chan]))
    ELSE <<>>

\* C12: inside recv_event, handling a Heartbeat or an InvalidateSession frame
\* (a SendMessage is queued) leaves the call reading, with nothing returned;
\* handling a Dispatch (a Sequence is queued) ends the call with Ok(event)
\* and last_sequence set to the dispatch's number; and however many such
\* frames were handled, the call can take a Dispatch while the gateway still
\* sends.
C12_RecvReadsOnUntilDispatch ==
    /\ [][(pc = "recv" /\ Queued # <<>> /\ Queued[1].cmd = "SendMessage") =>
            /\ pc' = "recv"
            /\ ret' = ret
            /\ Len(Queued) = 1
            /\ Queued[1].op \in {OpHeartbeat, OpIdentify}
            /\ conn'.last_sequence = conn.last_sequence]_vars
    /\ [][(pc = "recv" /\ Queued # <<>> /\ Queued[1].cmd = "Sequence") =>
            /\ pc' = "idle"
            /\ ret' \in {"ok_event", "ok_ready"}
            /\ conn'.last_sequence = Queued[1].n]_vars
    /\ [][(pc = "recv" /\ pc' = "idle" /\ ret' \in {"ok_event", "ok_ready"})
             => (workers[conn.chan].st # "exited" => Queued[1].cmd = "Sequence")]_vars
    /\ []((pc = "recv" /\ events < MaxEvents) => ENABLED Recv_Dispatch)

\* C12's case: recv_event has returned a dispatch's event after answering a
\* Heartbeat in the same call (both commands are still queued).
C12_Witness ==
    /\ pc = "idle"
    /\ ret = "ok_event"
    /\ conn.up
    /\ \E k \in DOMAIN chanQ[conn.chan] :
          /\ k < Len(chanQ[conn.chan])
          /\ chanQ[conn.chan][k].cmd = "SendMessage"
          /\ chanQ[conn.chan][k].op = OpHeartbeat
          /\ chanQ[conn.chan][k + 1].cmd = "Sequence"

\* The running recv_event is recovering from a failed read (a WebSocket error
\* or a close).
RecoveringFromFailure ==
    \E i \in DOMAIN hist : hist[i].e \in {"ws_err", "closed"}

\* What recv_event returns as Ok.
OkRets == {"ok_event", "ok_ready"}

\* C13 as claimed: a recv_event that recovers from a failed read returns Ok
\* exactly when a recovery step established a session, that is when it
\* returns from a resume that read its dispatch or from a reconnect whose
\* Connection::new succeeded.
C13_ErrOnlyIfAllFailed ==
    [][(RecoveringFromFailure /\ pc' = "idle") =>
          (ret' \in OkRets <=> pc \in {"resume_read", "reconnect_swap"})]_vars

\* C13 as amended: a recv_event that recovers from a failed read returns
\* either from a resume that read its dispatch, with Ok(event); or from a
\* reconnect whose Connection::new succeeded, with the new Connection
\* installed and Ok(Ready) if shutting down the old transport succeeded and
\* that shutdown's error otherwise; or, with self unchanged, with the error
\* of the REST request or of the third connect attempt after both attempts
\* on the cached URL failed.
C13_RecoveryOutcomes ==
    [][(RecoveringFromFailure /\ pc' = "idle") =>
          \/ /\ pc = "resume_read"
             /\ ret' \in OkRets
             /\ conn'.receiver = loc.tr
          \/ /\ pc = "reconnect_swap"
             /\ ret' \in {"ok_ready", "shutdown_err"}
             /\ ret' = "ok_ready" => trState'[conn.receiver] = "shut"
             /\ conn'.chan = loc.chan /\ conn'.receiver = loc.tr
             /\ conn'.session_id = loc.sid
          \/ /\ pc = "reconnect"
             /\ ret' = "rest_err"
             /\ IsPrefix(ReconnectSteps, FullReconnect) /\ Len(ReconnectSteps) = 6
             /\ conn' = conn
          \/ /\ pc \in NewPcs
             /\ caller = "rest"
             /\ ret' \in {"err", "protocol_err"}
             /\ ReconnectSteps = FullReconnect
             /\ conn' = conn]_vars

\* C13's case: after a failed read the resume failed, a connect attempt of
\* reconnect() succeeded, and the old transport is about to be shut down.
C13_Witness ==
    /\ RecoveringFromFailure
    /\ HistHas("resume_err")
    /\ pc = "reconnect_swap"

\* RESUME frames on transport t.
ResumesOn(t) == {j \in DOMAIN wire : wire[j].op = OpResume /\ wire[j].tr = t}

C15_MirrorConsistentWhenQuiet ==
    (conn.up /\ pc = "idle" /\ chanQ[conn.chan] = <<>>) =>
        workers[conn.chan].last_sequence = conn.last_sequence

\* Worker w takes a command from its channel in this step.
Takes(w) == Len(chanQ'[w]) < Len(chanQ[w])

\* C16: a command channel changes only by the orchestrator appending at its
\* end or by its worker taking its first command; the worker applies what it
\* takes: a SendMessage is written (if the send succeeds) as it was queued,
\* on the writer the worker holds, and changes nothing of the worker; a
\* ChangeSender makes its writer the worker's and writes nothing.  While a
\* ChangeSender is still queued, the worker neither holds its writer nor has
\* written on it.
C16_CommandsInOrder ==
    /\ [][\A w \in Chans :
            \/ IsPrefix(chanQ[w], chanQ'[w])
            \/ chanQ'[w] = Tail(chanQ[w]) /\ LiveWorker(w)]_vars
    /\ [][\A w \in Chans : Takes(w) =>
            LET h == Head(chanQ[w]) IN
            /\ h.cmd = "SendMessage" =>
                  /\ workers'[w] = workers[w]
                  /\ \/ wire' = wire
                     \/ wire' = Append(wire, Frame(h.op, h.n, NoSession,
                                                   workers[w].sender, w, "msg", NoSeq))
            /\ h.cmd = "ChangeSender" =>
                  /\ workers'[w] = [workers[w] EXCEPT !.sender = h.tr]
                  /\ wire' = wire
            /\ h.cmd = "Sequence" =>
                  /\ workers'[w].last_sequence = h.n
                  /\ workers'[w].sender = workers[w].sender
                  /\ wire' = wire
            /\ h.cmd = "ChangeInterval" =>
                  /\ workers'[w] = [workers[w] EXCEPT !.interval = h.n]
                  /\ wire' = wire]_vars
    /\ [](\A w \in Chans : \A k \in DOMAIN chanQ[w] :
            chanQ[w][k].cmd = "ChangeSender" =>
                /\ workers[w].sender # chanQ[w][k].tr
                /\ \A j \in DOMAIN wire :
                      wire[j].tr = chanQ[w][k].tr => wire[j].by = Orch)

\* C16's case: the first worker, spawned with the first transport's writer,
\* has applied a ChangeSender and then written a set_game frame that was
\* queued after it on the resumed connection's transport.
C16_Witness ==
    /\ conn.up
    /\ workers[conn.chan].sender = conn.receiver
    /\ \E j \in DOMAIN wire :
          /\ wire[j].kind = "msg" /\ wire[j].op = OpStatus
          /\ wire[j].by = conn.chan
          /\ wire[j].tr = conn.receiver
          /\ wire[j].tr # wire[j].by

\* C17 as claimed: when a call has returned a Ready to the application, the
\* handle holds a session id (that Ready's), also when the Ready was read by
\* recv_event after an InvalidateSession.
C17_SessionHeldAfterReady ==
    (conn.up /\ pc = "idle" /\ ret = "ok_ready") => conn.session_id # NoSession

\* reconnect() swaps the new Connection in and the old one's shutdown fails.
SwapShutdownFails ==
    pc = "reconnect_swap" /\ pc' # pc /\ ret' = "shutdown_err"

\* C18: when the old transport's shutdown fails in reconnect() after a new
\* connection was established, the error is what the call returns; self's
\* reader, command channel, session_id and last_sequence are those of the
\* new connection; the old command channel has lost its Sender; the only
\* channel that still has one is self's, whose worker runs; and every other
\* worker that still runs then eventually exits.
C18_FailedShutdownNotHalfAlive ==
    /\ [][SwapShutdownFails =>
            /\ pc' = "idle"
            /\ conn'.up
            /\ conn'.receiver = loc.tr /\ conn'.receiver # conn.receiver
            /\ conn'.chan = loc.chan /\ conn'.chan # conn.chan
            /\ conn'.session_id = loc.sid /\ conn'.session_id # NoSession
            /\ conn'.last_sequence = loc.seq
            /\ workers'[conn'.chan].sender = conn'.receiver
            /\ ~chanOpen'[conn.chan]
            /\ {w \in Chans : chanOpen'[w]} = {conn'.chan}
            /\ workers'[conn'.chan].st \in {"drain", "timer"}]_vars
    /\ \A w \in Chans :
          (pc = "idle" /\ ret = "shutdown_err" /\ conn.up
              /\ w # conn.chan /\ LiveWorker(w))
            ~> (workers[w].st = "exited")

\* C18's case: reconnect() has returned the shutdown error, the old worker
\* has exited since and self's worker runs on the new transport.
C18_Witness ==
    /\ pc = "idle" /\ ret = "shutdown_err" /\ conn.up
    /\ LiveWorker(conn.chan)
    /\ \E w \in Chans :
          /\ w # conn.chan
          /\ workers[w].st = "exited"
          /\ workers[w].sender # conn.receiver
    /\ workers[conn.chan].sender = conn.receiver

\* recv_event handles a server Heartbeat in this step.
HeartbeatStep ==
    /\ pc = "recv"
    /\ Len(hist') = Len(hist) + 1
    /\ hist'[Len(hist')].e = "heartbeat"

\* C19: on a server Heartbeat(n), recv_event queues exactly one SendMessage
\* of an op-1 frame whose d is n, whatever last_sequence is, changes neither
\* the handle's fields nor any worker's state, and goes on reading; the
\* worker that takes a SendMessage writes the frame as queued and keeps its
\* own last_sequence; and the call that has answered a Heartbeat can take a
\* Dispatch while the gateway still sends, which it returns with Ok.
C19_HeartbeatAnswered ==
    /\ [][HeartbeatStep =>
            LET n == hist'[Len(hist')].n IN
            /\ workers[conn.chan].st # "exited" =>
                  Queued = <<Cmd("SendMessage", OpHeartbeat, n, 0)>>
            /\ \A c \in Chans : c # conn.chan => chanQ'[c] = chanQ[c]
            /\ conn' = conn
            /\ workers' = workers
            /\ wire' = wire
            /\ pc' = "recv"
            /\ ret' = ret]_vars
    /\ [][\A w \in Chans :
            (K_Draining(w, "SendMessage") /\ chanQ'[w] = Tail(chanQ[w])) =>
                /\ workers'[w].last_sequence = workers[w].last_sequence
                /\ Writes =>
                      /\ wire'[Len(wire')].op = K_Head(w).op
                      /\ wire'[Len(wire')].seq = K_Head(w).n]_vars
    /\ []((pc = "recv" /\ HistHas("heartbeat") /\ events < MaxEvents)
             => ENABLED Recv_Dispatch)
    /\ [][(pc = "recv" /\ HistHas("heartbeat") /\ Queued # <<>>
              /\ Queued[1].cmd = "Sequence")
             => (pc' = "idle" /\ ret' \in OkRets)]_vars

\* C19's case: the worker has written the reply to a server Heartbeat whose
\* number differs from the handle's last_sequence, the worker's own
\* last_sequence differs from it too, and recv_event is still reading.
C19_Witness ==
    /\ pc = "recv"
    /\ \E i \in DOMAIN hist, j \in DOMAIN wire :
          /\ hist[i].e = "heartbeat"
          /\ hist[i].n # conn.last_sequence
          /\ wire[j].op = OpHeartbeat
          /\ wire[j].kind = "msg"
          /\ wire[j].seq = hist[i].n
          /\ wire[j].by = conn.chan
          /\ workers[conn.chan].last_sequence # hist[i].n

\* C20: resume() is entered with the handle as it is and the held session id
\* as argument; no step of it but the successful return changes a field of
\* the handle or queues a command; so when it fails, at whichever step
\* (shutdown, opening, sending RESUME, a read error, an unexpected frame,
\* also after a re-identify inside resume), session_id is still the one it
\* was called with, last_sequence is still the one its RESUME carried (if it
\* got to write one), the reader is not the one it had opened, whose transport
\* is closed and whose writer no worker holds or has queued in a
\* ChangeSender, and reconnect() starts at its first attempt.
C20_FailedResumeChangesNothing ==
    /\ [][(pc \notin ResumePcs /\ pc' \in ResumePcs) =>
            /\ conn' = conn
            /\ loc'.sid = conn.session_id
            /\ Queued = <<>>]_vars
    /\ [][(pc \in ResumePcs /\ pc' # "idle") =>
            /\ conn' = conn
            /\ Queued = <<>>
            /\ \/ pc' \in ResumePcs /\ loc'.sid = loc.sid
               \/ pc' = "reconnect"]_vars
    /\ [][(pc \in ResumePcs /\ pc' = "reconnect") =>
            /\ conn'.session_id = loc.sid
            /\ \A j \in DOMAIN wire :
                  (wire[j].op = OpResume /\ loc.tr # 0 /\ wire[j].tr = loc.tr)
                      => wire[j].seq = conn'.last_sequence
            /\ conn'.receiver # loc.tr
            /\ loc.tr # 0 => trState'[loc.tr] = "shut"
            /\ loc.tr # 0 =>
                  \A w \in Chans :
                     /\ workers'[w].sender # loc.tr
                     /\ \A k \in DOMAIN chanQ'[w] : chanQ'[w][k].tr # loc.tr
            /\ attempt' = 0
            /\ ret' = ret]_vars

\* C20's case: a resume that re-identified after an InvalidateSession has
\* failed, and reconnect() is starting with the session id still held.
C20_Witness ==
    /\ pc = "reconnect"
    /\ attempt = 0
    /\ conn.session_id # NoSession
    /\ \E i, j \in DOMAIN hist :
          /\ i < j
          /\ hist[i].e = "resume_invalidate"
          /\ hist[j].e \in {"resume_err", "resume_protocol_err"}

====
